---- MODULE Spec2Model ----
(***************************************************************************)
(* A model of the assistant bot in task.py: the validated field types      *)
(* (Name, Phone, Birthday), Record, AddressBook with its birthday          *)
(* scheduler, the input_error decorator and the shell command handlers.    *)
(*                                                                         *)
(* Texts are sequences of one-character strings, so that str.strip,        *)
(* str.isdigit, strptime and strftime are modelled by what they do to the  *)
(* characters.  Dates are records [y, m, d] of the proleptic Gregorian     *)
(* calendar, as datetime.date.                                             *)
(***************************************************************************)
EXTENDS Integers, Sequences, FiniteSets, TLC

VARIABLES
    book,       \* AddressBook.data: the entries [key, rec] in insertion order
    rec,        \* a stand-alone Record, the receiver of direct Record calls
    last,       \* the last call made and what it returned or raised
    prev,       \* SpecBook: the call made before the last one
    today,      \* date.today()
    daysAhead,  \* the days_ahead argument of get_upcoming_birthdays
    upcoming    \* the outcome of the last get_upcoming_birthdays call

vars == <<book, rec, last, prev, today, daysAhead, upcoming>>

----------------------------------------------------------------------------
(* Bounds of the model. *)

\* the most phones a Record of the address book of Spec holds
MaxPhones == 1
\* the most phones the stand-alone Record of SpecRecord holds
MaxRecordPhones == 2
\* the most records of a book handed to get_upcoming_birthdays
MaxBirthdayRecords == 2
\* the largest days_ahead handed to get_upcoming_birthdays
MaxDaysAhead == 7

----------------------------------------------------------------------------
(* Characters and texts. *)

\* "sup2" stands for U+00B2 SUPERSCRIPT TWO: str.isdigit() is True for it,
\* str.isdecimal() is False.
AsciiDigits == {"0", "1", "2", "3", "4", "5", "6", "7", "8", "9"}
OtherDigits == {"sup2"}
Whitespace == {" ", "\t"}

DigitSeq == <<"0", "1", "2", "3", "4", "5", "6", "7", "8", "9">>

SetMin(S) == CHOOSE x \in S : \A y \in S : x <= y
SetMax(S) == CHOOSE x \in S : \A y \in S : x >= y

\* str.strip(): the text without its leading and trailing whitespace
Strip(s) ==
    LET keep == {i \in 1..Len(s) : s[i] \notin Whitespace}
    IN  IF keep = {} THEN <<>> ELSE SubSeq(s, SetMin(keep), SetMax(keep))

\* str.isdigit(): non-empty and every character a digit
IsDigit(s) ==
    /\ Len(s) > 0
    /\ \A i \in 1..Len(s) : s[i] \in AsciiDigits \cup OtherDigits

----------------------------------------------------------------------------
(* Field types.  A constructor yields [exc, text, value]: exc = "" and the *)
(* stored value, or the exception raised and its message.                  *)

PhoneLen == 10

Built(v) == [exc |-> "", text |-> "", value |-> v]
Raised(e, t) == [exc |-> e, text |-> t, value |-> <<>>]

\* Name.__init__ (every value of the model is a str)
NameInit(value) ==
    IF Strip(value) = <<>>
    THEN Raised("ValueError", "Name can't be empty.")
    ELSE Built(Strip(value))

\* mutant: the length test accepts shorter texts too
PhoneInit_AtMostLen(value) ==
    LET v == Strip(value)
    IN  IF ~IsDigit(v) \/ Len(v) > PhoneLen
        THEN Raised("ValueError", "Phone must contain exactly 10 digits.")
        ELSE Built(v)

\* Phone.__init__
PhoneInit(value) ==
    LET v == Strip(value)
    IN  IF ~IsDigit(v) \/ Len(v) # PhoneLen
        THEN Raised("ValueError", "Phone must contain exactly 10 digits.")
        ELSE Built(v)

----------------------------------------------------------------------------
(* datetime.date: the proleptic Gregorian calendar. *)

NoDate == [y |-> 0, m |-> 0, d |-> 0]
Date(y, m, d) == [y |-> y, m |-> m, d |-> d]

IsLeap(y) == y % 4 = 0 /\ (y % 100 # 0 \/ y % 400 = 0)

MonthDays == <<31, 28, 31, 30, 31, 30, 31, 31, 30, 31, 30, 31>>
DaysBeforeMonthTab == <<0, 31, 59, 90, 120, 151, 181, 212, 243, 273, 304, 334>>

DaysInMonth(y, m) == IF m = 2 /\ IsLeap(y) THEN 29 ELSE MonthDays[m]

\* what date(y, m, d) accepts (MINYEAR = 1, MAXYEAR = 9999)
ValidDate(y, m, d) ==
    /\ y \in 1..9999
    /\ m \in 1..12
    /\ d >= 1
    /\ d <= DaysInMonth(y, m)

\* date.toordinal(): 0001-01-01 is day 1
ToOrdinal(dt) ==
    LET py == dt.y - 1
    IN  py * 365 + (py \div 4) - (py \div 100) + (py \div 400)
        + DaysBeforeMonthTab[dt.m]
        + (IF dt.m > 2 /\ IsLeap(dt.y) THEN 1 ELSE 0)
        + dt.d

\* date.weekday(): Monday is 0, Sunday is 6
Weekday(dt) == (ToOrdinal(dt) + 6) % 7

\* date.__lt__ and date.__le__: year, then month, then day
DateLess(a, b) ==
    \/ a.y < b.y
    \/ a.y = b.y /\ a.m < b.m
    \/ a.y = b.y /\ a.m = b.m /\ a.d < b.d

DateLeq(a, b) == a = b \/ DateLess(a, b)

NextDay(dt) ==
    IF dt.d < DaysInMonth(dt.y, dt.m) THEN Date(dt.y, dt.m, dt.d + 1)
    ELSE IF dt.m < 12 THEN Date(dt.y, dt.m + 1, 1)
    ELSE Date(dt.y + 1, 1, 1)

\* date + timedelta(days = k), k >= 0
RECURSIVE AddDays(_, _)
AddDays(dt, k) == IF k = 0 THEN dt ELSE AddDays(NextDay(dt), k - 1)

DateOk(dt) == [exc |-> "", value |-> dt]
DateErr == [exc |-> "ValueError", value |-> NoDate]

\* mutant: Feb 29 is moved to Feb 28 in a year that has no Feb 29
ReplaceYear_Clamp(dt, year) ==
    IF ValidDate(year, dt.m, dt.d) THEN DateOk(Date(year, dt.m, dt.d))
    ELSE DateOk(Date(year, dt.m, DaysInMonth(year, dt.m)))

\* date.replace(year = ...): ValueError when the date does not exist
ReplaceYear(dt, year) ==
    IF ValidDate(year, dt.m, dt.d) THEN DateOk(Date(year, dt.m, dt.d))
    ELSE DateErr

DigitVal(c) == CHOOSE n \in 0..9 : DigitSeq[n + 1] = c
DigitChar(n) == DigitSeq[n + 1]

TwoDigits(n) == <<DigitChar(n \div 10), DigitChar(n % 10)>>
FourDigits(n) ==
    <<DigitChar(n \div 1000), DigitChar((n \div 100) % 10),
      DigitChar((n \div 10) % 10), DigitChar(n % 10)>>

\* strftime("%Y.%m.%d"), for the four-digit years date.today() yields
FormatYMD(dt) == FourDigits(dt.y) \o <<".">> \o TwoDigits(dt.m) \o <<".">> \o TwoDigits(dt.d)

\* strftime("%d.%m.%Y")
FormatDMY(dt) == TwoDigits(dt.d) \o <<".">> \o TwoDigits(dt.m) \o <<".">> \o FourDigits(dt.y)

IsAsciiDigits(s) == \A i \in 1..Len(s) : s[i] \in AsciiDigits

RECURSIVE NumVal(_)
NumVal(s) ==
    IF s = <<>> THEN 0
    ELSE NumVal(SubSeq(s, 1, Len(s) - 1)) * 10 + DigitVal(s[Len(s)])

\* datetime.strptime(text, "%d.%m.%Y").date(): one or two digits of day, one
\* or two of month, four of year, and the date must exist
ParseDMY(s) ==
    LET dots == {i \in 1..Len(s) : s[i] = "."}
    IN  IF Cardinality(dots) # 2 THEN DateErr
        ELSE
            LET i1 == SetMin(dots)
                i2 == SetMax(dots)
                dd == SubSeq(s, 1, i1 - 1)
                mm == SubSeq(s, i1 + 1, i2 - 1)
                yy == SubSeq(s, i2 + 1, Len(s))
            IN  IF /\ Len(dd) \in {1, 2} /\ IsAsciiDigits(dd)
                   /\ Len(mm) \in {1, 2} /\ IsAsciiDigits(mm)
                   /\ Len(yy) = 4 /\ IsAsciiDigits(yy)
                   /\ ValidDate(NumVal(yy), NumVal(mm), NumVal(dd))
                THEN DateOk(Date(NumVal(yy), NumVal(mm), NumVal(dd)))
                ELSE DateErr

\* Birthday.__init__ on a text: any ValueError becomes the format error
BirthdayInit(value) ==
    LET p == ParseDMY(Strip(value))
    IN  IF p.exc # ""
        THEN [exc |-> "ValueError", text |-> "Invalid date format. Use DD.MM.YYYY",
              value |-> NoDate]
        ELSE [exc |-> "", text |-> "", value |-> p.value]

----------------------------------------------------------------------------
(* Record.  A method yields [exc, text, ret, rec]: the exception raised    *)
(* (or ""), its message, the value returned and the Record afterwards.     *)

NoRec == [name |-> <<>>, phones |-> <<>>, birthday |-> NoDate]

\* Record.__init__ for a name text Name accepts
MkRecord(name) == [name |-> NameInit(name).value, phones |-> <<>>, birthday |-> NoDate]

RecOut(e, t, r, rc) == [exc |-> e, text |-> t, ret |-> r, rec |-> rc]

\* the indexes of the phones whose value equals the text
Matches(rc, text) == {i \in 1..Len(rc.phones) : rc.phones[i] = text}

RemoveAt(s, i) == SubSeq(s, 1, i - 1) \o SubSeq(s, i + 1, Len(s))

\* Record.add_phone
RecordAddPhone(rc, text) ==
    LET p == PhoneInit(text)
    IN  IF p.exc # "" THEN RecOut(p.exc, p.text, "None", rc)
        ELSE RecOut("", "", "None", [rc EXCEPT !.phones = Append(@, p.value)])

\* Record.remove_phone
RecordRemovePhone(rc, text) ==
    IF Matches(rc, text) = {} THEN RecOut("", "", "False", rc)
    ELSE RecOut("", "", "True",
                [rc EXCEPT !.phones = RemoveAt(@, SetMin(Matches(rc, text)))])

\* mutant: the new phone is validated before the old one is looked for
RecordEditPhone_ValidateFirst(rc, old, new) ==
    LET p == PhoneInit(new)
    IN  IF p.exc # "" THEN RecOut(p.exc, p.text, "None", rc)
        ELSE IF Matches(rc, old) = {} THEN RecOut("", "", "False", rc)
        ELSE RecOut("", "", "True",
                    [rc EXCEPT !.phones[SetMin(Matches(rc, old))] = p.value])

\* Record.edit_phone
RecordEditPhone(rc, old, new) ==
    IF Matches(rc, old) = {} THEN RecOut("", "", "False", rc)
    ELSE
        LET p == PhoneInit(new)
        IN  IF p.exc # "" THEN RecOut(p.exc, p.text, "None", rc)
            ELSE RecOut("", "", "True",
                        [rc EXCEPT !.phones[SetMin(Matches(rc, old))] = p.value])

\* Record.find_phone: the Phone found ("Phone") or None
RecordFindPhone(rc, text) ==
    IF Matches(rc, text) = {} THEN RecOut("", "", "None", rc)
    ELSE RecOut("", "", "Phone", rc)

\* Record.add_birthday
RecordAddBirthday(rc, text) ==
    LET b == BirthdayInit(text)
    IN  IF b.exc # "" THEN RecOut(b.exc, b.text, "None", rc)
        ELSE RecOut("", "", "None", [rc EXCEPT !.birthday = b.value])

----------------------------------------------------------------------------
(* AddressBook: a dict in insertion order, a sequence of [key, rec].       *)

Keys(bk) == {bk[i].key : i \in 1..Len(bk)}
IndexOf(bk, k) == CHOOSE i \in 1..Len(bk) : bk[i].key = k

\* mutant: a store that never overwrites
DictSet_Append(bk, k, rc) == Append(bk, [key |-> k, rec |-> rc])

\* dict.__setitem__: overwrite in place, or add at the end
DictSet(bk, k, rc) ==
    IF k \in Keys(bk) THEN [bk EXCEPT ![IndexOf(bk, k)].rec = rc]
    ELSE Append(bk, [key |-> k, rec |-> rc])

\* AddressBook.add_record
AddRecordOp(bk, rc) == DictSet(bk, rc.name, rc)

\* mutant: the lookup trims the name first
FindOp_Trimmed(bk, name) ==
    IF Strip(name) \in Keys(bk) THEN bk[IndexOf(bk, Strip(name))].rec ELSE NoRec

\* AddressBook.find: the Record, or None (NoRec)
FindOp(bk, name) ==
    IF name \in Keys(bk) THEN bk[IndexOf(bk, name)].rec ELSE NoRec

\* AddressBook.delete
DeleteOp(bk, name) ==
    IF name \in Keys(bk) THEN RemoveAt(bk, IndexOf(bk, name)) ELSE bk

----------------------------------------------------------------------------
(* AddressBook.get_upcoming_birthdays *)

Saturday == 5
Sunday == 6

CharCode(c) == IF c = "." THEN 46 ELSE 48 + DigitVal(c)

\* str.__lt__: by code point at the first difference, then by length
StrLess(a, b) ==
    LET n == IF Len(a) < Len(b) THEN Len(a) ELSE Len(b)
        diff == {i \in 1..n : a[i] # b[i]}
    IN  IF diff = {} THEN Len(a) < Len(b)
        ELSE CharCode(a[SetMin(diff)]) < CharCode(b[SetMin(diff)])

\* the place list.sort gives e among the sorted ones: after every element
\* that is not greater (the sort is stable)
InsertSorted(sorted, e) ==
    LET after == {i \in 1..Len(sorted) :
                    StrLess(e.congratulation_date, sorted[i].congratulation_date)}
        at == IF after = {} THEN Len(sorted) + 1 ELSE SetMin(after)
    IN  SubSeq(sorted, 1, at - 1) \o <<e>> \o SubSeq(sorted, at, Len(sorted))

RECURSIVE SortLoop(_, _, _)
SortLoop(list, i, acc) ==
    IF i > Len(list) THEN acc ELSE SortLoop(list, i + 1, InsertSorted(acc, list[i]))

\* mutant: the result is left in the order of the book
SortByDate_None(list) == list

\* result.sort(key = congratulation_date)
SortByDate(list) == SortLoop(list, 1, <<>>)

\* mutant: a birthday that is today counts as passed
Candidate_PassedToday(bd, now) ==
    LET c == ReplaceYear(bd, now.y)
    IN  IF c.exc # "" THEN c
        ELSE IF DateLeq(c.value, now) THEN ReplaceYear(bd, now.y + 1)
        ELSE c

\* lines 98-100: the birthday in this year, or in the next when it has passed
Candidate(bd, now) ==
    LET c == ReplaceYear(bd, now.y)
    IN  IF c.exc # "" THEN c
        ELSE IF DateLess(c.value, now) THEN ReplaceYear(bd, now.y + 1)
        ELSE c

\* mutant: a Saturday is moved by one day only
Congratulation_SatPlusOne(cand) ==
    IF Weekday(cand) = Saturday THEN AddDays(cand, 1)
    ELSE IF Weekday(cand) = Sunday THEN AddDays(cand, 1)
    ELSE cand

\* lines 103-107: a weekend is moved to the Monday after it
Congratulation(cand) ==
    IF Weekday(cand) = Saturday THEN AddDays(cand, 2)
    ELSE IF Weekday(cand) = Sunday THEN AddDays(cand, 1)
    ELSE cand

\* the for loop of lines 94-112; a ValueError of date.replace ends the call
RECURSIVE UpcomingLoop(_, _, _, _, _)
UpcomingLoop(bk, i, now, endDay, acc) ==
    IF i > Len(bk) THEN [exc |-> "", list |-> acc]
    ELSE IF bk[i].rec.birthday = NoDate THEN UpcomingLoop(bk, i + 1, now, endDay, acc)
    ELSE
        LET c == Candidate(bk[i].rec.birthday, now)
        IN  IF c.exc # "" THEN [exc |-> c.exc, list |-> <<>>]
            ELSE IF DateLeq(now, c.value) /\ DateLeq(c.value, endDay)
            THEN UpcomingLoop(bk, i + 1, now, endDay,
                    Append(acc, [name |-> bk[i].rec.name,
                                 congratulation_date |->
                                     FormatYMD(Congratulation(c.value))]))
            ELSE UpcomingLoop(bk, i + 1, now, endDay, acc)

GetUpcomingBirthdays(bk, now, days) ==
    LET r == UpcomingLoop(bk, 1, now, AddDays(now, days), <<>>)
    IN  IF r.exc # "" THEN r ELSE [exc |-> "", list |-> SortByDate(r.list)]

----------------------------------------------------------------------------
(* input_error and the command handlers.  A handler yields [msg, book]:    *)
(* the text it returns, as a sequence of pieces, and the book afterwards.  *)

\* input_error: the text returned for an exception the handler raised
InputError(exc, text) ==
    CASE exc = "ValueError" -> <<"Value error: ", text>>
      [] exc = "AttributeError" -> <<"This contact does not exist.">>
      [] exc = "IndexError" -> <<"Not enough arguments.">>
      [] OTHER -> <<"Error: ", text>>

\* the message of the ValueError of "a, b, *_ = args" for too short an args
UnpackText(need, got) ==
    CASE need = 1 -> "not enough values to unpack (expected at least 1, got 0)"
      [] need = 2 /\ got = 0 -> "not enough values to unpack (expected at least 2, got 0)"
      [] need = 2 /\ got = 1 -> "not enough values to unpack (expected at least 2, got 1)"
      [] need = 3 /\ got = 0 -> "not enough values to unpack (expected at least 3, got 0)"
      [] need = 3 /\ got = 1 -> "not enough values to unpack (expected at least 3, got 1)"
      [] OTHER -> "not enough values to unpack (expected at least 3, got 2)"

\* the exception of a starred unpacking of too few values
UnpackExc == "ValueError"

Ret(m, bk) == [msg |-> m, book |-> bk]

\* "; ".join(p.value for p in phones)
RECURSIVE JoinPhones(_, _)
JoinPhones(phones, i) ==
    IF i > Len(phones) THEN <<>>
    ELSE IF i = Len(phones) THEN phones[i]
    ELSE phones[i] \o <<"; ">> \o JoinPhones(phones, i + 1)

\* add_contact
add_contact(args, bk) ==
    IF Len(args) < 2 THEN Ret(InputError(UnpackExc, UnpackText(2, Len(args))), bk)
    ELSE
        LET name == args[1]
            phone == args[2]
            found == FindOp(bk, name)
            nm == NameInit(name)
        IN  IF found = NoRec /\ nm.exc # "" THEN Ret(InputError(nm.exc, nm.text), bk)
            ELSE
                LET bk1 == IF found = NoRec THEN AddRecordOp(bk, MkRecord(name)) ELSE bk
                    key == IF found = NoRec THEN nm.value ELSE name
                    m == IF found = NoRec THEN "Contact added." ELSE "Contact updated."
                    r == RecordAddPhone(bk1[IndexOf(bk1, key)].rec, phone)
                IN  IF phone = <<>> THEN Ret(<<m>>, bk1)
                    ELSE IF r.exc # "" THEN Ret(InputError(r.exc, r.text), bk1)
                    ELSE Ret(<<m>>, [bk1 EXCEPT ![IndexOf(bk1, key)].rec = r.rec])

\* change_contact
change_contact(args, bk) ==
    IF Len(args) < 3 THEN Ret(InputError(UnpackExc, UnpackText(3, Len(args))), bk)
    ELSE
        LET name == args[1]
            found == FindOp(bk, name)
            r == RecordEditPhone(found, args[2], args[3])
        IN  IF found = NoRec THEN Ret(InputError("AttributeError", ""), bk)
            ELSE IF r.exc # "" THEN Ret(InputError(r.exc, r.text), bk)
            ELSE IF r.ret = "True"
            THEN Ret(<<"Phone updated.">>, [bk EXCEPT ![IndexOf(bk, name)].rec = r.rec])
            ELSE Ret(<<"Old phone not found.">>, bk)

\* show_phone
show_phone(args, bk) ==
    IF Len(args) < 1 THEN Ret(InputError(UnpackExc, UnpackText(1, Len(args))), bk)
    ELSE
        LET found == FindOp(bk, args[1])
        IN  IF found = NoRec THEN Ret(InputError("AttributeError", ""), bk)
            ELSE IF found.phones = <<>> THEN Ret(<<"No phones.">>, bk)
            ELSE Ret(JoinPhones(found.phones, 1), bk)

\* add_birthday
add_birthday(args, bk) ==
    IF Len(args) < 2 THEN Ret(InputError(UnpackExc, UnpackText(2, Len(args))), bk)
    ELSE
        LET name == args[1]
            found == FindOp(bk, name)
            nm == NameInit(name)
        IN  IF found = NoRec /\ nm.exc # "" THEN Ret(InputError(nm.exc, nm.text), bk)
            ELSE
                LET bk1 == IF found = NoRec THEN AddRecordOp(bk, MkRecord(name)) ELSE bk
                    key == IF found = NoRec THEN nm.value ELSE name
                    r == RecordAddBirthday(bk1[IndexOf(bk1, key)].rec, args[2])
                IN  IF r.exc # "" THEN Ret(InputError(r.exc, r.text), bk1)
                    ELSE IF found = NoRec
                    THEN Ret(<<"Contact created. ", "Birthday added.">>,
                             [bk1 EXCEPT ![IndexOf(bk1, key)].rec = r.rec])
                    ELSE Ret(<<"Birthday added.">>,
                             [bk1 EXCEPT ![IndexOf(bk1, key)].rec = r.rec])

\* show_birthday
show_birthday(args, bk) ==
    IF Len(args) < 1 THEN Ret(InputError(UnpackExc, UnpackText(1, Len(args))), bk)
    ELSE
        LET found == FindOp(bk, args[1])
        IN  IF found = NoRec THEN Ret(InputError("AttributeError", ""), bk)
            ELSE IF found.birthday = NoDate THEN Ret(<<"No birthday set.">>, bk)
            ELSE Ret(FormatDMY(found.birthday), bk)

----------------------------------------------------------------------------
(* The inputs of the model. *)

PhoneA == <<"0", "1", "2", "3", "4", "5", "6", "7", "8", "9">>
PhoneB == <<"9", "9", "9", "9", "9", "9", "9", "9", "9", "9">>
PhoneShort == <<"1", "2", "3">>
PhoneAlpha == <<"0", "1", "2", "3", "4", "a", "6", "7", "8", "9">>

\* the words main() hands a handler: str.split() leaves no whitespace in them
NameTokens == {<<"a">>, <<"b">>}
PhoneTokens == {PhoneA, PhoneB, PhoneShort}
BirthdayTokens == {FormatDMY(Date(2000, 6, 15)),
                   <<"3", "1", ".", "0", "2", ".", "2", "0", "0", "0">>}
ExtraTokens == {<<"x">>}

\* the name texts of direct Record(...) and find(...) calls
NameTexts == {<<>>, <<" ">>, <<"a">>, <<" ", "a">>, <<"b">>, <<"b", " ">>}

\* the phone texts of direct Record calls
PhoneTexts == {PhoneA, PhoneB, <<" ">> \o PhoneA, PhoneShort, PhoneAlpha}

\* the texts Phone(...) is tried on: a ten-digit text with one character
\* changed, dropped or added, between optional whitespace
PhoneChars == {"0", "7", " ", "a", "-", "sup2"}
PhonePads == {<<>>, <<" ">>, <<"\t">>}
PhoneBodies ==
    UNION {
        {[b EXCEPT ![i] = c] : i \in 1..Len(b), c \in PhoneChars}
        \cup {SubSeq(b, 1, Len(b) - 1)}
        \cup {Append(b, c) : c \in PhoneChars}
        : b \in {PhoneA, PhoneB}}
PhoneInputs == {l \o b \o r : l \in PhonePads, b \in PhoneBodies, r \in PhonePads}

\* the argument lists of a handler: every prefix of (x, y, z)
Args1(X) == {<<>>} \cup {<<x>> : x \in X} \cup {<<x, e>> : x \in X, e \in ExtraTokens}
Args2(X, Y) == {<<>>} \cup {<<x>> : x \in X} \cup {<<x, y>> : x \in X, y \in Y}
Args3(X, Y, Z) == Args2(X, Y) \cup {<<x, y, z>> : x \in X, y \in Y, z \in Z}

\* the Records handed to add_record: Record(n), then add_phone, add_birthday
NewRecords(n) ==
    {[MkRecord(n) EXCEPT !.phones = ph, !.birthday = bd] :
        ph \in {<<>>, <<PhoneA>>}, bd \in {NoDate, Date(2000, 6, 15)}}

\* the names are finitely many, so only the phone lists need a bound
Bounded(bk) == \A i \in 1..Len(bk) : Len(bk[i].rec.phones) <= MaxPhones

----------------------------------------------------------------------------
(* The record of the last call. *)

NoCall ==
    [op |-> "", args |-> <<>>, exc |-> "", ret |-> "", rec |-> NoRec, msg |-> <<>>,
     size |-> 0]

\* a direct call: the exception raised or the value returned
Direct(op, args, exc, ret, rc) ==
    [op |-> op, args |-> args, exc |-> exc, ret |-> ret, rec |-> rc, msg |-> <<>>,
     size |-> 0]

\* a handler under input_error: the text returned
Handled(op, args, m) ==
    [op |-> op, args |-> args, exc |-> "", ret |-> "str", rec |-> NoRec, msg |-> m,
     size |-> 0]

NotCalled == [called |-> FALSE, exc |-> "", list |-> <<>>]
Day0 == Date(2024, 6, 10)

----------------------------------------------------------------------------
(* Spec: the address book under direct calls and shell commands. *)

Init ==
    /\ book = <<>>
    /\ rec = NoRec
    /\ last = NoCall
    /\ prev = NoCall
    /\ today = Day0
    /\ daysAhead = 0
    /\ upcoming = NotCalled

\* book.add_record(Record(n) ...); Record(n) raises for a name Name rejects
AddRecordCall ==
    \E n \in NameTexts :
        /\ \/ /\ NameInit(n).exc # ""
              /\ book' = book
              /\ last' = [Direct("add_record", <<n>>, NameInit(n).exc, "None", NoRec)
                              EXCEPT !.size = Len(book')]
           \/ /\ NameInit(n).exc = ""
              /\ \E rc \in NewRecords(n) :
                    /\ book' = AddRecordOp(book, rc)
                    /\ last' = [Direct("add_record", <<n>>, "", "None", rc)
                                    EXCEPT !.size = Len(book')]
        /\ Bounded(book')
        /\ UNCHANGED <<rec, today, daysAhead, upcoming>>

\* book.find(n)
FindCall ==
    \E n \in NameTexts :
        /\ book' = book
        /\ last' = [Direct("find", <<n>>, "",
                           IF FindOp(book, n) = NoRec THEN "None" ELSE "Record",
                           FindOp(book, n))
                        EXCEPT !.size = Len(book')]
        /\ UNCHANGED <<rec, today, daysAhead, upcoming>>

\* book.delete(n)
DeleteCall ==
    \E n \in NameTexts :
        /\ book' = DeleteOp(book, n)
        /\ last' = [Direct("delete", <<n>>, "", "None", NoRec)
                        EXCEPT !.size = Len(book')]
        /\ UNCHANGED <<rec, today, daysAhead, upcoming>>

AddRecord == AddRecordCall /\ UNCHANGED prev
Find == FindCall /\ UNCHANGED prev
Delete == DeleteCall /\ UNCHANGED prev

Command(op, args, r) ==
    /\ book' = r.book
    /\ last' = Handled(op, args, r.msg)
    /\ Bounded(book')
    /\ UNCHANGED <<rec, prev, today, daysAhead, upcoming>>

CmdAdd ==
    \E args \in Args2(NameTokens, PhoneTokens) :
        Command("add", args, add_contact(args, book))

CmdChange ==
    \E args \in Args3(NameTokens, PhoneTokens, PhoneTokens) :
        Command("change", args, change_contact(args, book))

CmdPhone ==
    \E args \in Args1(NameTokens) :
        Command("phone", args, show_phone(args, book))

CmdAddBirthday ==
    \E args \in Args2(NameTokens, BirthdayTokens) :
        Command("add-birthday", args, add_birthday(args, book))

CmdShowBirthday ==
    \E args \in Args1(NameTokens) :
        Command("show-birthday", args, show_birthday(args, book))

Next ==
    \/ AddRecord
    \/ Find
    \/ Delete
    \/ CmdAdd
    \/ CmdChange
    \/ CmdPhone
    \/ CmdAddBirthday
    \/ CmdShowBirthday

Spec == Init /\ [][Next]_vars

----------------------------------------------------------------------------
(* SpecRecord: direct calls on one Record. *)

InitRecord ==
    /\ book = <<>>
    /\ rec = MkRecord(<<"a">>)
    /\ last = NoCall
    /\ prev = NoCall
    /\ today = Day0
    /\ daysAhead = 0
    /\ upcoming = NotCalled

RecordCall(op, args, r) ==
    /\ rec' = r.rec
    /\ last' = Direct(op, args, r.exc, r.ret, NoRec)
    /\ Len(rec'.phones) <= MaxRecordPhones
    /\ UNCHANGED <<book, prev, today, daysAhead, upcoming>>

RecAddPhone ==
    \E t \in PhoneTexts : RecordCall("add_phone", <<t>>, RecordAddPhone(rec, t))

RecRemovePhone ==
    \E t \in PhoneTexts : RecordCall("remove_phone", <<t>>, RecordRemovePhone(rec, t))

RecEditPhone ==
    \E old \in PhoneTexts, new \in PhoneTexts :
        RecordCall("edit_phone", <<old, new>>, RecordEditPhone(rec, old, new))

RecFindPhone ==
    \E t \in PhoneTexts : RecordCall("find_phone", <<t>>, RecordFindPhone(rec, t))

RecAddBirthday ==
    \E t \in BirthdayTokens : RecordCall("add_birthday", <<t>>, RecordAddBirthday(rec, t))

NextRecord ==
    \/ RecAddPhone
    \/ RecRemovePhone
    \/ RecEditPhone
    \/ RecFindPhone
    \/ RecAddBirthday

SpecRecord == InitRecord /\ [][NextRecord]_vars

----------------------------------------------------------------------------
(* SpecPhone: Phone(...) on a text. *)

\* a call of Phone(t) about to be made
InitPhone ==
    /\ book = <<>>
    /\ rec = NoRec
    /\ last \in {Direct("", <<t>>, "", "", NoRec) : t \in PhoneInputs}
    /\ prev = NoCall
    /\ today = Day0
    /\ daysAhead = 0
    /\ upcoming = NotCalled

\* Phone(t): the exception raised, or the value stored (kept in msg)
PhoneCall ==
    /\ last.op = ""
    /\ last' = [Direct("Phone", last.args, PhoneInit(last.args[1]).exc, "Phone", NoRec)
                    EXCEPT !.msg = PhoneInit(last.args[1]).value]
    /\ UNCHANGED <<book, rec, prev, today, daysAhead, upcoming>>

NextPhone == PhoneCall

SpecPhone == InitPhone /\ [][NextPhone]_vars

----------------------------------------------------------------------------
(* SpecBirthdays: get_upcoming_birthdays on a book, a day and a window. *)

\* the days of the year today and the birthdays are drawn from
TodayDays == {<<6, 10>>, <<12, 28>>, <<2, 25>>, <<2, 29>>, <<3, 1>>}
BirthdayDays ==
    {<<6, 9>>, <<6, 10>>, <<6, 15>>, <<6, 16>>, <<6, 20>>,
     <<12, 28>>, <<12, 31>>, <<1, 2>>, <<2, 29>>, <<3, 1>>}

TodayYears == {2023, 2024}
BirthYears == {2000}

DatesOf(years, days) ==
    {dt \in {Date(y, md[1], md[2]) : y \in years, md \in days} :
        ValidDate(dt.y, dt.m, dt.d)}

Todays == DatesOf(TodayYears, TodayDays)
Birthdays == DatesOf(BirthYears, BirthdayDays)

\* the i-th Record of a book of SpecBirthdays is named n<i>
BirthdayName(i) == <<"n", DigitChar(i)>>

BirthdayBook(bds) ==
    [i \in 1..Len(bds) |->
        [key |-> BirthdayName(i),
         rec |-> [MkRecord(BirthdayName(i)) EXCEPT !.birthday = bds[i]]]]

BirthdayBooks ==
    UNION {{BirthdayBook(bds) : bds \in [1..n -> Birthdays \cup {NoDate}]}
            : n \in 0..MaxBirthdayRecords}

InitBirthdays ==
    /\ book \in BirthdayBooks
    /\ rec = NoRec
    /\ last = NoCall
    /\ prev = NoCall
    /\ today \in Todays
    /\ daysAhead \in 0..MaxDaysAhead
    /\ upcoming = NotCalled

Upcoming ==
    /\ ~upcoming.called
    /\ upcoming' = [called |-> TRUE,
                    exc |-> GetUpcomingBirthdays(book, today, daysAhead).exc,
                    list |-> GetUpcomingBirthdays(book, today, daysAhead).list]
    /\ UNCHANGED <<book, rec, last, prev, today, daysAhead>>

NextBirthdays == Upcoming

SpecBirthdays == InitBirthdays /\ [][NextBirthdays]_vars

----------------------------------------------------------------------------
(* SpecBook: direct calls on the address book, two calls kept. *)

BookAddRecord == AddRecordCall /\ prev' = last
BookFind == FindCall /\ prev' = last
BookDelete == DeleteCall /\ prev' = last

NextBook ==
    \/ BookAddRecord
    \/ BookFind
    \/ BookDelete

SpecBook == Init /\ [][NextBook]_vars

----------------------------------------------------------------------------
(* The claims. *)

HasPadding(t) == t # Strip(t)

\* C1 (Spec): every key of the book equals the name value of the Record it
\* maps to, and no two entries hold Records of the same name value.
C1_KeyIsName ==
    /\ \A i \in 1..Len(book) : book[i].key = book[i].rec.name
    /\ \A i, j \in 1..Len(book) : book[i].rec.name = book[j].rec.name => i = j

\* C1 witness: two entries, the second stored by add_record from a padded name
C1_Witness ==
    /\ Len(book) = 2
    /\ last.op = "add_record"
    /\ last.exc = ""
    /\ HasPadding(last.args[1])
    /\ book[2].rec = last.rec

\* C2 as stated (SpecRecord): edit_phone(old, new) with a new text Phone
\* rejects always raises the validation error and leaves the phones as they were.
C2_AlwaysRaises ==
    [][(last'.op = "edit_phone" /\ PhoneInit(last'.args[2]).exc # "")
        => (last'.exc = "ValueError" /\ rec'.phones = rec.phones)]_vars

\* C2 amended (SpecRecord): edit_phone(old, new) with a new text Phone rejects
\* leaves the phones as they were; it raises the validation error exactly when
\* some phone of the Record equals old, and returns False otherwise.
C2_RaisesWhenFound ==
    [][(last'.op = "edit_phone" /\ PhoneInit(last'.args[2]).exc # "")
        => /\ rec'.phones = rec.phones
           /\ (\E i \in 1..Len(rec.phones) : rec.phones[i] = last'.args[1])
                => last'.exc = "ValueError"
           /\ (\A i \in 1..Len(rec.phones) : rec.phones[i] # last'.args[1])
                => (last'.exc = "" /\ last'.ret = "False")]_vars

\* C2 witness: edit_phone raised on a Record of two phones that holds old
C2_Witness ==
    /\ last.op = "edit_phone"
    /\ last.exc = "ValueError"
    /\ PhoneInit(last.args[2]).exc # ""
    /\ Len(rec.phones) = 2
    /\ \E i \in 1..Len(rec.phones) : rec.phones[i] = last.args[1]

\* the text is exactly ten characters 0-9
TenDecimalDigits(t) == Len(t) = 10 /\ \A i \in 1..Len(t) : t[i] \in AsciiDigits

\* the places i..j of the text hold ten digit characters (0-9 or another
\* Unicode digit) and every other place holds whitespace
TenDigitCore(t, i, j) ==
    /\ j - i + 1 = 10
    /\ \A k \in 1..Len(t) :
        IF k >= i /\ k <= j THEN t[k] \in AsciiDigits \cup OtherDigits
        ELSE t[k] \in Whitespace

HandlerNeeds(op) ==
    CASE op = "add" -> 2
      [] op = "change" -> 3
      [] op = "add-birthday" -> 2
      [] op = "phone" -> 1
      [] op = "show-birthday" -> 1
      [] OTHER -> 0

\* C6 (Spec): a handler called with fewer arguments than it needs returns
\* "Not enough arguments.".
C6_NotEnoughArguments ==
    Len(last.args) < HandlerNeeds(last.op) => last.msg = <<"Not enough arguments.">>

IsErrorMessage(m) ==
    /\ m # <<>>
    /\ m[1] \in {"Value error: ", "This contact does not exist.",
                 "Not enough arguments.", "Error: "}

\* C10 (Spec): when add, change or add-birthday returns an error message, the
\* book is as it was before the command.
C10_ErrorLeavesBook ==
    [][(last'.op \in {"add", "change", "add-birthday"} /\ IsErrorMessage(last'.msg))
        => book' = book]_vars

AddedOk(c) == c.op = "add_record" /\ c.exc = ""

\* C8 as stated (SpecBook): after add_record(Record(n)), find(n) with the same
\* text returns that Record; a second add_record of the same name leaves the
\* size as it was and the name maps to the Record added last.
C8_FindSameText ==
    /\ (AddedOk(prev) /\ last.op = "find" /\ last.args = prev.args)
        => (last.ret = "Record" /\ last.rec = prev.rec)
    /\ (AddedOk(prev) /\ AddedOk(last) /\ last.args = prev.args)
        => (last.size = prev.size /\ FindOp(book, Strip(last.args[1])) = last.rec)

\* C8 amended (SpecBook): after add_record(Record(n)), find of the trimmed n
\* returns that Record, and find(n) itself returns it exactly when n has no
\* leading or trailing whitespace (None otherwise); a second add_record of a
\* name with the same trimmed text leaves the size as it was and the trimmed
\* name maps to the Record added last.
C8_FindTrimmed ==
    /\ (AddedOk(prev) /\ last.op = "find" /\ last.args[1] = Strip(prev.args[1]))
        => (last.ret = "Record" /\ last.rec = prev.rec)
    /\ (AddedOk(prev) /\ last.op = "find" /\ last.args = prev.args
            /\ HasPadding(prev.args[1]))
        => (last.ret = "None" /\ last.rec = NoRec)
    /\ (AddedOk(prev) /\ AddedOk(last) /\ Strip(last.args[1]) = Strip(prev.args[1]))
        => (last.size = prev.size /\ FindOp(book, Strip(last.args[1])) = last.rec)

\* C8 witness: a Record added under a padded name and then found by the
\* trimmed name, in a book that holds another Record too
C8_Witness ==
    /\ AddedOk(prev)
    /\ HasPadding(prev.args[1])
    /\ last.op = "find"
    /\ last.args[1] = Strip(prev.args[1])
    /\ last.ret = "Record"
    /\ Len(book) = 2

----------------------------------------------------------------------------
(* The claims about get_upcoming_birthdays (SpecBirthdays). *)

IsFeb29(dt) == dt.m = 2 /\ dt.d = 29

\* the date of a congratulation_date text YYYY.MM.DD
DateOfYMD(t) == Date(NumVal(SubSeq(t, 1, 4)), NumVal(SubSeq(t, 6, 7)), NumVal(SubSeq(t, 9, 10)))

\* the candidate of a birthday, by day numbers: this year's date, or next
\* year's when this year's is before today
CandidateOf(bd) ==
    IF ToOrdinal(Date(today.y, bd.m, bd.d)) < ToOrdinal(today)
    THEN Date(today.y + 1, bd.m, bd.d)
    ELSE Date(today.y, bd.m, bd.d)

InWindow(bd) ==
    /\ ToOrdinal(today) <= ToOrdinal(CandidateOf(bd))
    /\ ToOrdinal(CandidateOf(bd)) <= ToOrdinal(today) + daysAhead

\* the places of the result that name the i-th Record of the book
EntriesOf(i) ==
    {j \in 1..Len(upcoming.list) : upcoming.list[j].name = book[i].rec.name}

\* days since Monday 2024-06-10, modulo 7: 5 is a Saturday, 6 a Sunday
DayOfWeek(dt) == (ToOrdinal(dt) - ToOrdinal(Date(2024, 6, 10))) % 7

\* C3: with no Feb 29 birthday in the book, the call returns, and the result
\* holds exactly one entry for each Record that has a birthday whose candidate
\* lies in [today, today + daysAhead], and no entry for any other Record.
C3_WindowMembership ==
    (upcoming.called /\ \A i \in 1..Len(book) : ~IsFeb29(book[i].rec.birthday))
    => /\ upcoming.exc = ""
       /\ \A i \in 1..Len(book) :
            Cardinality(EntriesOf(i)) =
                IF book[i].rec.birthday # NoDate /\ InWindow(book[i].rec.birthday)
                THEN 1 ELSE 0
       /\ \A j \in 1..Len(upcoming.list) : \E i \in 1..Len(book) : j \in EntriesOf(i)

\* C3 witness: a window over the year end that takes a January birthday with
\* next year's date and leaves another birthday out
C3_Witness ==
    /\ upcoming.called
    /\ upcoming.exc = ""
    /\ today.m = 12
    /\ Len(book) = 2
    /\ \A i \in 1..Len(book) : book[i].rec.birthday # NoDate
    /\ \A i \in 1..Len(book) : ~IsFeb29(book[i].rec.birthday)
    /\ \E i \in 1..Len(book) :
        /\ book[i].rec.birthday.m = 1
        /\ EntriesOf(i) # {}
    /\ \E i \in 1..Len(book) : EntriesOf(i) = {}

\* C4: each entry's date is its Record's candidate moved by two days from a
\* Saturday, by one day from a Sunday and not at all otherwise, and is never
\* a Saturday or a Sunday.
C4_WeekendShift ==
    upcoming.called =>
        \A i \in 1..Len(book) : \A j \in EntriesOf(i) :
            LET cand == CandidateOf(book[i].rec.birthday)
                congr == DateOfYMD(upcoming.list[j].congratulation_date)
            IN  /\ ValidDate(congr.y, congr.m, congr.d)
                /\ ToOrdinal(congr) - ToOrdinal(cand) =
                        CASE DayOfWeek(cand) = 5 -> 2
                          [] DayOfWeek(cand) = 6 -> 1
                          [] OTHER -> 0
                /\ DayOfWeek(congr) \notin {5, 6}

\* C4 witness: a result with a Saturday candidate and a Sunday candidate
C4_Witness ==
    /\ upcoming.called
    /\ \E i \in 1..Len(book) :
        EntriesOf(i) # {} /\ DayOfWeek(CandidateOf(book[i].rec.birthday)) = 5
    /\ \E i \in 1..Len(book) :
        EntriesOf(i) # {} /\ DayOfWeek(CandidateOf(book[i].rec.birthday)) = 6

\* C7: the result is in non-decreasing order of the congratulation_date
\* texts, and so of the dates they stand for.
C7_Sorted ==
    upcoming.called =>
        \A j, k \in 1..Len(upcoming.list) :
            j < k =>
                /\ ~StrLess(upcoming.list[k].congratulation_date,
                            upcoming.list[j].congratulation_date)
                /\ ToOrdinal(DateOfYMD(upcoming.list[j].congratulation_date))
                    <= ToOrdinal(DateOfYMD(upcoming.list[k].congratulation_date))

\* C7 witness: two entries of different years, put in the order opposite to
\* the book's
C7_Witness ==
    /\ upcoming.called
    /\ Len(upcoming.list) = 2
    /\ upcoming.list[1].name = book[2].rec.name
    /\ upcoming.list[2].name = book[1].rec.name
    /\ DateOfYMD(upcoming.list[1].congratulation_date).y
        < DateOfYMD(upcoming.list[2].congratulation_date).y

\* the year the candidate of a Feb 29 birthday is taken in has no Feb 29
Feb29Missing(bd) ==
    /\ IsFeb29(bd)
    /\ \/ ~IsLeap(today.y)
       \/ DateLess(Date(today.y, 2, 29), today) /\ ~IsLeap(today.y + 1)

\* C9: with a Feb 29 birthday whose candidate year is no leap year, the call
\* either fails with the invalid-date error or returns without an entry for
\* that Record.
C9_Feb29NoEntry ==
    upcoming.called =>
        \A i \in 1..Len(book) :
            Feb29Missing(book[i].rec.birthday) =>
                \/ upcoming.exc = "ValueError" /\ upcoming.list = <<>>
                \/ upcoming.exc = "" /\ EntriesOf(i) = {}

\* C9 witness: the call failed in a leap year after Feb 29, on the second
\* Record, the first one having a birthday today
C9_Witness ==
    /\ upcoming.called
    /\ upcoming.exc = "ValueError"
    /\ IsLeap(today.y)
    /\ Len(book) = 2
    /\ book[1].rec.birthday.m = today.m
    /\ book[1].rec.birthday.d = today.d
    /\ Feb29Missing(book[2].rec.birthday)

====
